---- MODULE Spec2Model ----
(***************************************************************************)
(* NabBot, cogs/utils/database_migration.py.                               *)
(*                                                                         *)
(* The module models the two entry points of the file:                     *)
(*   check_database   - creates the PostgreSQL schema and stores its       *)
(*                      version;                                           *)
(*   import_legacy_db - copies the legacy SQLite store into the target,    *)
(*                      one importer after the other, one target statement *)
(*                      at a time, with no enclosing transaction.          *)
(* One action is one target statement (or one loop exit) of the code.  A   *)
(* target statement may fail with a store error; the code catches nothing, *)
(* so the error ends the run and leaves the target as it is.  A process    *)
(* killed between two statements leaves the same target as a failure of    *)
(* the later statement, so both are the action Fail.                       *)
(***************************************************************************)
EXTENDS Integers, Sequences, FiniteSets, TLC

VARIABLES
    legacy,              \* the legacy SQLite store (only ever read)
    db,                  \* the target store: its tables and serial sequences
    now,                 \* the target's clock, now(): it advances from run to run
    entry,               \* the function the caller invoked
    status,              \* "idle" | "running" | "done" | "aborted"
    pc,                  \* the loop the run is in
    i,                   \* 1-based position in that loop's list
    levelups,            \* import_characters: local list
    deaths,              \* import_characters: local list
    skipped_deaths,      \* import_characters: local counter
    skipped_levelups,    \* import_characters: local counter
    death_id,            \* import_characters: id returned by the death insert
    event_subscribers,   \* import_events: local list
    event_participants,  \* import_events: local list
    completed,           \* runs that returned normally since Init
    conns,               \* the legacy connection and the pooled target connection
    catalog,             \* the tables, functions and triggers the target holds
    error                \* the exception that ended the last run, or "none"

vars == <<legacy, db, now, entry, status, pc, i, levelups, deaths, skipped_deaths,
          skipped_levelups, death_id, event_subscribers, event_participants,
          completed, conns, catalog, error>>

(***************************************************************************)
(* Bounds of the model.                                                    *)
(***************************************************************************)
\* calls of the entry function in one behaviour
MaxRuns == 2
\* rows of the legacy store below its characters and events (deaths and
\* level-ups; subscribers and participants), in total, and rows of its
\* server_properties table
MaxRecords == 2

(***************************************************************************)
(* Program constants.                                                      *)
(***************************************************************************)
\* interval '15' second
Interval15 == 15

LATEST_VERSION == 1

\* SQL NULL / Python None for a text value; no id for an id (ids start at 1)
NULL == "NULL"
NoId == 0

Names == {"a", "b"}
\* unix timestamps: 0/15 and 16/31 are exactly 15 s apart, 0/16 and 15/31 are 16 s
Dates == {0, 15, 16, 31}
DeathDates == {0, 15}
ByPlayerFlags == {0, 1}

(***************************************************************************)
(* Python helpers.                                                         *)
(***************************************************************************)
\* datetime.datetime.utcfromtimestamp: whole unix seconds to the UTC instant,
\* which the model writes as its second count.
utcfromtimestamp(ts) == ts

GREATEST(a, b) == IF a >= b THEN a ELSE b

\* the list left in the order the per-character queries appended it
KeptOrder(s) == s

\* one step of a stable insertion sort on the date column
RECURSIVE InsertByDate(_, _)
InsertByDate(x, s) ==
    IF s = <<>> THEN <<x>>
    ELSE IF s[Len(s)].date <= x.date THEN Append(s, x)
    ELSE Append(InsertByDate(x, SubSeq(s, 1, Len(s) - 1)), s[Len(s)])

\* sorted(list, key=itemgetter(2)): stable, ascending by date
RECURSIVE SortedByDate(_)
SortedByDate(s) ==
    IF s = <<>> THEN <<>>
    ELSE InsertByDate(s[Len(s)], SortedByDate(SubSeq(s, 1, Len(s) - 1)))

\* WHERE char_id = ?: the rows of a legacy table that belong to one legacy
\* character, in storage order
RECURSIVE RowsOfChar(_, _)
RowsOfChar(s, old_id) ==
    IF s = <<>> THEN <<>>
    ELSE IF Head(s).char_id = old_id
         THEN <<Head(s)>> \o RowsOfChar(Tail(s), old_id)
         ELSE RowsOfChar(Tail(s), old_id)

(***************************************************************************)
(* The target schema's trigger on "character".                             *)
(***************************************************************************)
\* update_modified_column(): NEW.modified = now()
update_modified_column(row, t) == [row EXCEPT !.modified = t]

\* update_character_modified: BEFORE UPDATE ON "character" FOR EACH ROW
update_character_modified(row, t) == update_modified_column(row, t)

(***************************************************************************)
(* Target statements of import_characters, as functions of the store.      *)
(***************************************************************************)
CharacterId(d, name) ==
    IF \E r \in d.character : r.name = name
    THEN (CHOOSE r \in d.character : r.name = name).id
    ELSE NoId

\* ON CONFLICT(name) DO UPDATE SET name=EXCLUDED.name: an UPDATE of the row,
\* so the BEFORE UPDATE trigger runs on it
ConflictUpdate(row, char, t) ==
    update_character_modified([row EXCEPT !.name = char.name], t)

\* the insert arm: id from the serial sequence, modified and created default to now()
InsertCharacter(d, char, t) ==
    [d EXCEPT !.character = @ \cup {[id |-> d.character_id_seq + 1,
                                     user_id |-> char.user_id, name |-> char.name,
                                     level |-> char.level, vocation |-> char.vocation,
                                     world |-> char.world, guild |-> char.guild,
                                     modified |-> t, created |-> t]},
               !.character_id_seq = @ + 1]

\* the upsert without its ON CONFLICT clause
UpsertCharacterIgnoringConflict(d, char, t) == InsertCharacter(d, char, t)

\* INSERT INTO "character" (...) VALUES (...) ON CONFLICT(name) DO UPDATE ...
UpsertCharacter(d, char, t) ==
    IF CharacterId(d, char.name) = NoId
    THEN InsertCharacter(d, char, t)
    ELSE [d EXCEPT !.character =
              {IF r.name = char.name THEN ConflictUpdate(r, char, t) ELSE r : r \in @}]

\* the existence check on the wrong id column
DeathExistsById(d, date, char_id) ==
    \E r \in d.character_death : r.date = date /\ r.id = char_id

\* SELECT id FROM character_death WHERE date = $1 AND character_id = $2
DeathExists(d, date, char_id) ==
    \E r \in d.character_death : r.date = date /\ r.character_id = char_id

\* INSERT INTO character_death(character_id, level, date) ... RETURNING id
InsertDeath(d, char_id, level, date) ==
    [d EXCEPT !.character_death = @ \cup {[id |-> d.character_death_id_seq + 1,
                                           character_id |-> char_id,
                                           level |-> level, date |-> date]},
               !.character_death_id_seq = @ + 1]

\* INSERT INTO character_death_killer(death_id, name, player): position defaults to 0
InsertKiller(d, did, name, player) ==
    [d EXCEPT !.character_death_killer =
                  Append(@, [death_id |-> did, position |-> 0,
                             name |-> name, player |-> player])]

\* the window check with < for <=
LevelupExistsStrict(d, char_id, date) ==
    \E r \in d.character_levelup :
        /\ r.character_id = char_id
        /\ GREATEST(date - r.date, r.date - date) < Interval15

\* SELECT id FROM character_levelup WHERE character_id = $1
\*   AND GREATEST($2-date, date-$2) <= interval '15' second
LevelupExists(d, char_id, date) ==
    \E r \in d.character_levelup :
        /\ r.character_id = char_id
        /\ GREATEST(date - r.date, r.date - date) <= Interval15

\* INSERT INTO character_levelup(character_id, level, date)
InsertLevelup(d, char_id, level, date) ==
    [d EXCEPT !.character_levelup = @ \cup {[id |-> d.character_levelup_id_seq + 1,
                                             character_id |-> char_id,
                                             level |-> level, date |-> date]},
               !.character_levelup_id_seq = @ + 1]

(***************************************************************************)
(* Legacy queries of import_characters.                                    *)
(***************************************************************************)
\* SELECT ?, level, date FROM char_levelups WHERE char_id = ? ORDER BY date ASC
LegacyLevelups(lg, char_id, old_id) ==
    LET Tag(r) == [char_id |-> char_id, level |-> r.level, date |-> r.date]
        mine == SortedByDate(RowsOfChar(lg.char_levelups, old_id))
    IN [k \in 1..Len(mine) |-> Tag(mine[k])]

\* the death query tagging the rows with the legacy id
LegacyDeathsTaggedOldId(lg, char_id, old_id) ==
    LET Tag(r) == [char_id |-> old_id, level |-> r.level, date |-> r.date,
                   killer |-> r.killer, byplayer |-> r.byplayer]
        mine == RowsOfChar(lg.char_deaths, old_id)
    IN [k \in 1..Len(mine) |-> Tag(mine[k])]

\* SELECT ?, level, date, killer, byplayer FROM char_deaths WHERE char_id = ?
LegacyDeaths(lg, char_id, old_id) ==
    LET Tag(r) == [char_id |-> char_id, level |-> r.level, date |-> r.date,
                   killer |-> r.killer, byplayer |-> r.byplayer]
        mine == RowsOfChar(lg.char_deaths, old_id)
    IN [k \in 1..Len(mine) |-> Tag(mine[k])]

(***************************************************************************)
(* json.loads and json.dumps on the values the legacy store holds.  A text *)
(* is the sequence of its characters.  A Python value is a record: t is    *)
(* "list" (v: the strings, each a sequence of characters), "str" (v: the   *)
(* characters) or "error" (json.loads raised).  The grammar covers what    *)
(* the modelled legacy stores hold: strings and lists of strings.          *)
(***************************************************************************)
Quote == "\""
Backslash == "\\"

PyStr(chars) == [t |-> "str", v |-> chars]
PyList(items) == [t |-> "list", v |-> items]
PyError == [t |-> "error", v |-> <<>>]

NoParse == [ok |-> FALSE, val |-> <<>>, rest |-> <<>>]

RECURSIVE SkipWs(_)
SkipWs(s) == IF s # <<>> /\ Head(s) = " " THEN SkipWs(Tail(s)) ELSE s

\* the characters of a string literal after its opening quote
RECURSIVE ParseChars(_, _)
ParseChars(s, acc) ==
    IF s = <<>> THEN NoParse
    ELSE IF Head(s) = Quote THEN [ok |-> TRUE, val |-> acc, rest |-> Tail(s)]
    ELSE IF Head(s) = Backslash
         THEN IF Len(s) >= 2 /\ s[2] \in {Quote, Backslash}
              THEN ParseChars(Tail(Tail(s)), Append(acc, s[2]))
              ELSE NoParse
    ELSE ParseChars(Tail(s), Append(acc, Head(s)))

ParseString(s) ==
    IF s # <<>> /\ Head(s) = Quote THEN ParseChars(Tail(s), <<>>) ELSE NoParse

\* the items of a list, s standing at an item
RECURSIVE ParseItems(_, _)
ParseItems(s, acc) ==
    LET item == ParseString(s)
        after == SkipWs(item.rest)
    IN IF ~item.ok \/ after = <<>> THEN NoParse
       ELSE IF Head(after) = "]"
            THEN [ok |-> TRUE, val |-> Append(acc, item.val), rest |-> Tail(after)]
       ELSE IF Head(after) = ","
            THEN ParseItems(SkipWs(Tail(after)), Append(acc, item.val))
       ELSE NoParse

ParseList(s) ==
    LET inner == SkipWs(Tail(s))
    IN IF inner = <<>> THEN NoParse
       ELSE IF Head(inner) = "]" THEN [ok |-> TRUE, val |-> <<>>, rest |-> Tail(inner)]
       ELSE ParseItems(inner, <<>>)

\* json.loads(text)
JsonLoads(text) ==
    LET s == SkipWs(text)
    IN IF s = <<>> THEN PyError
       ELSE IF Head(s) = "["
            THEN LET r == ParseList(s)
                 IN IF r.ok /\ SkipWs(r.rest) = <<>> THEN PyList(r.val) ELSE PyError
       ELSE IF Head(s) = Quote
            THEN LET r == ParseString(s)
                 IN IF r.ok /\ SkipWs(r.rest) = <<>> THEN PyStr(r.val) ELSE PyError
       ELSE PyError

RECURSIVE Escaped(_)
Escaped(chars) ==
    IF chars = <<>> THEN <<>>
    ELSE IF Head(chars) \in {Quote, Backslash}
         THEN <<Backslash, Head(chars)>> \o Escaped(Tail(chars))
         ELSE <<Head(chars)>> \o Escaped(Tail(chars))

DumpsStr(chars) == <<Quote>> \o Escaped(chars) \o <<Quote>>

RECURSIVE DumpsItems(_)
DumpsItems(items) ==
    IF items = <<>> THEN <<>>
    ELSE IF Len(items) = 1 THEN DumpsStr(items[1])
    ELSE DumpsStr(Head(items)) \o <<",", " ">> \o DumpsItems(Tail(items))

\* json.dumps(value) of a string, a list of strings or a bool
JsonDumps(value) ==
    CASE value.t = "str" -> DumpsStr(value.v)
      [] value.t = "list" -> <<"[">> \o DumpsItems(value.v) \o <<"]">>
      [] value.t = "bool" -> IF value.v THEN <<"t", "r", "u", "e">>
                                         ELSE <<"f", "a", "l", "s", "e">>

\* bool(value) of a str: true unless it is empty
PyBool(chars) == [t |-> "bool", v |-> chars # <<>>]

\* int(server) of the decimal texts the legacy store holds
PyInt(text) ==
    CASE text = "1" -> 1
      [] text = "2" -> 2

(***************************************************************************)
(* Target statements of import_server_properties and import_roles.         *)
(***************************************************************************)
\* the prefixes insert as an upsert that overwrites the stored list
InsertPrefixesOverwriting(d, server, prefixes) ==
    [d EXCEPT !.server_prefixes =
                  {r \in @ : r.server_id # server}
                  \cup {[server_id |-> server, prefixes |-> prefixes]}]

\* INSERT INTO server_prefixes(server_id, prefixes) ... ON CONFLICT DO NOTHING
InsertPrefixes(d, server, prefixes) ==
    IF \E r \in d.server_prefixes : r.server_id = server
    THEN d
    ELSE [d EXCEPT !.server_prefixes =
                       @ \cup {[server_id |-> server, prefixes |-> prefixes]}]

\* INSERT INTO server_property(server_id, key, value)
\*   ... ON CONFLICT(server_id, key) DO NOTHING
InsertProperty(d, server, key, value) ==
    IF \E r \in d.server_property : r.server_id = server /\ r.key = key
    THEN d
    ELSE [d EXCEPT !.server_property =
                       @ \cup {[server_id |-> server, key |-> key, value |-> value]}]

\* what the loop body of import_server_properties computes for one legacy
\* row before its statement: the table it writes, the value it binds, and
\* whether the body raised instead (json.loads on an unparsable text; a
\* value that is no list bound to a text[] parameter)
PropertyPlan(row) ==
    LET parsed == JsonLoads(row.value)
    IN CASE row.name = "prefixes" ->
                [table |-> "server_prefixes", value |-> parsed.v,
                 raised |-> parsed.t # "list"]
         [] row.name = "times" ->
                [table |-> "server_property",
                 value |-> IF parsed.t = "error" THEN <<>> ELSE JsonDumps(parsed),
                 raised |-> parsed.t = "error"]
         [] row.name = "commandsonly" ->
                [table |-> "server_property", value |-> JsonDumps(PyBool(row.value)),
                 raised |-> FALSE]
         [] OTHER ->
                [table |-> "server_property", value |-> JsonDumps(PyStr(row.value)),
                 raised |-> FALSE]

\* the loop body without the "continue" of its prefixes branch: the row
\* falls through to the server_property insert
PropertyStatementNoContinue(d, row) ==
    LET plan == PropertyPlan(row)
        server == PyInt(row.server_id)
    IN IF plan.table = "server_prefixes"
       THEN InsertProperty(InsertPrefixes(d, server, plan.value), server, row.name,
                           JsonDumps(PyStr(row.value)))
       ELSE InsertProperty(d, server, row.name, plan.value)

\* the statement of one loop body of import_server_properties
PropertyStatement(d, row) ==
    LET plan == PropertyPlan(row)
        server == PyInt(row.server_id)
    IN IF plan.table = "server_prefixes"
       THEN InsertPrefixes(d, server, plan.value)
       ELSE InsertProperty(d, server, row.name, plan.value)

\* INSERT INTO role_auto(server_id, role_id, rule) ... ON CONFLICT ... DO NOTHING
InsertRoleAuto(d, row) ==
    [d EXCEPT !.role_auto = @ \cup {[server_id |-> row.server_id,
                                     role_id |-> row.role_id, rule |-> row.guild]}]

\* INSERT INTO role_joinable(server_id, role_id) ... ON CONFLICT ... DO NOTHING
InsertRoleJoinable(d, row) ==
    [d EXCEPT !.role_joinable = @ \cup {[server_id |-> row.server_id,
                                         role_id |-> row.role_id]}]

(***************************************************************************)
(* Target statements and legacy queries of import_events.                  *)
(***************************************************************************)
\* bool(x) of an int
PyBoolInt(x) == x # 0

\* the event insert binding the legacy status as it is
InsertEventKeepingStatus(d, row, t) ==
    [d EXCEPT !.event = @ \cup {[id |-> d.event_id_seq + 1,
                                 user_id |-> row.creator, name |-> row.name,
                                 start |-> utcfromtimestamp(row.start),
                                 active |-> PyBoolInt(row.active),
                                 description |-> row.description,
                                 server_id |-> row.server,
                                 joinable |-> PyBoolInt(row.joinable),
                                 slots |-> row.slots,
                                 reminder |-> row.status,
                                 modified |-> t, created |-> t]},
               !.event_id_seq = @ + 1]

\* INSERT INTO event(user_id, name, start, active, description, server_id,
\*                   joinable, slots, reminder) ... RETURNING id
InsertEvent(d, row, t) ==
    [d EXCEPT !.event = @ \cup {[id |-> d.event_id_seq + 1,
                                 user_id |-> row.creator, name |-> row.name,
                                 start |-> utcfromtimestamp(row.start),
                                 active |-> PyBoolInt(row.active),
                                 description |-> row.description,
                                 server_id |-> row.server,
                                 joinable |-> PyBoolInt(row.joinable),
                                 slots |-> row.slots,
                                 reminder |-> 4 - row.status,
                                 modified |-> t, created |-> t]},
               !.event_id_seq = @ + 1]

RECURSIVE RowsOfEvent(_, _)
RowsOfEvent(s, old_id) ==
    IF s = <<>> THEN <<>>
    ELSE IF Head(s).event_id = old_id
         THEN <<Head(s)>> \o RowsOfEvent(Tail(s), old_id)
         ELSE RowsOfEvent(Tail(s), old_id)

\* SELECT ?, user_id FROM event_subscribers WHERE event_id = ?
LegacySubscribers(lg, event_id, old_id) ==
    LET mine == RowsOfEvent(lg.event_subscribers, old_id)
    IN [k \in 1..Len(mine) |-> [event_id |-> event_id, user_id |-> mine[k].user_id]]

\* the name column of the LEFT JOIN chars ON id = char_id: NULL when the
\* participant's character is not in chars
JoinedName(lg, char_id) ==
    IF \E k \in 1..Len(lg.chars) : lg.chars[k].id = char_id
    THEN lg.chars[CHOOSE k \in 1..Len(lg.chars) : lg.chars[k].id = char_id].name
    ELSE NULL

\* SELECT ?, name FROM event_participants LEFT JOIN chars ON id = char_id
\*   WHERE event_id = ?
LegacyParticipants(lg, event_id, old_id) ==
    LET mine == RowsOfEvent(lg.event_participants, old_id)
    IN [k \in 1..Len(mine) |->
            [event_id |-> event_id, name |-> JoinedName(lg, mine[k].char_id)]]

\* INSERT INTO event_subscriber(event_id, user_id) ... ON CONFLICT ... DO NOTHING
InsertSubscriber(d, row) ==
    [d EXCEPT !.event_subscriber = @ \cup {[event_id |-> row.event_id,
                                            user_id |-> row.user_id]}]

\* SELECT id FROM "character" WHERE name = $1: a NULL name equals no name
SelectCharacterId(d, name) ==
    IF name = NULL THEN NoId ELSE CharacterId(d, name)

\* INSERT INTO event_participant(event_id, character_id) ... ON CONFLICT ... DO NOTHING
InsertParticipant(d, event_id, char_id) ==
    [d EXCEPT !.event_participant = @ \cup {[event_id |-> event_id,
                                             character_id |-> char_id]}]

\* the loop body without its "if char_id is None: continue"
ParticipantStatementNoCheck(d, row) ==
    InsertParticipant(d, row.event_id, SelectCharacterId(d, row.name))

\* one loop body of the participant loop: the lookup, then "continue" on
\* None or the insert
ParticipantStatement(d, row) ==
    LET char_id == SelectCharacterId(d, row.name)
    IN IF char_id = NoId THEN d ELSE InsertParticipant(d, row.event_id, char_id)

(***************************************************************************)
(* The schema: the CREATE statements of the three lists, by the name of    *)
(* the object each creates, in the lists' order.                           *)
(***************************************************************************)
\* the table list with character_death ahead of the table it references
tablesChildFirst ==
    <<"character_death", "character", "character_death_killer", "character_levelup",
      "event", "event_participant", "event_subscriber", "highscores",
      "highscores_entry", "role_auto", "role_joinable", "server_property",
      "server_prefixes", "global_property", "watchlist_entry", "command">>

tables ==
    <<"character", "character_death", "character_death_killer", "character_levelup",
      "event", "event_participant", "event_subscriber", "highscores",
      "highscores_entry", "role_auto", "role_joinable", "server_property",
      "server_prefixes", "global_property", "watchlist_entry", "command">>

functions == <<"update_modified_column">>

triggers == <<"update_character_modified", "update_event_modified">>

SchemaObjects ==
    {tables[k] : k \in 1..Len(tables)}
    \cup {functions[k] : k \in 1..Len(functions)}
    \cup {triggers[k] : k \in 1..Len(triggers)}

\* what a CREATE statement names: FOREIGN KEY ... REFERENCES, ON <table>,
\* EXECUTE PROCEDURE <function>
References(obj) ==
    CASE obj = "character_death" -> {"character"}
      [] obj = "character_death_killer" -> {"character_death"}
      [] obj = "character_levelup" -> {"character"}
      [] obj = "event_participant" -> {"event", "character"}
      [] obj = "event_subscriber" -> {"event"}
      [] obj = "update_character_modified" -> {"character", "update_modified_column"}
      [] obj = "update_event_modified" -> {"event", "update_modified_column"}
      [] OTHER -> {}

\* con.execute of a CREATE statement succeeds: the object is new (no
\* statement says IF NOT EXISTS or OR REPLACE) and what it names exists
CanCreate(cat, obj) == obj \notin cat /\ References(obj) \subseteq cat

\* SELECT value FROM global_property WHERE key = 'db_version', within the
\* try/except of get_version: 0 without the table, None without the row
get_version(cat, d) ==
    IF "global_property" \notin cat THEN [none |-> FALSE, value |-> 0]
    ELSE IF \E r \in d.global_property : r.key = "db_version"
         THEN [none |-> FALSE,
               value |-> (CHOOSE r \in d.global_property : r.key = "db_version").value]
         ELSE [none |-> TRUE, value |-> 0]

\* the version test off by one
OutdatedOffByOne(version) == version <= LATEST_VERSION

\* check_database: if version <= 0
Outdated(version) == version <= 0

\* INSERT INTO global_property (key, value) VALUES ('db_version',$1)
\*   ON CONFLICT (key) DO UPDATE SET value = EXCLUDED.value
set_version(d, version) ==
    [d EXCEPT !.global_property =
                  {r \in @ : r.key # "db_version"}
                  \cup {[key |-> "db_version", value |-> version]}]

(***************************************************************************)
(* Control.                                                                *)
(***************************************************************************)
fixed == <<legacy, now, entry, catalog>>
charLocals == <<levelups, deaths, skipped_deaths, skipped_levelups, death_id>>
eventLocals == <<event_subscribers, event_participants>>

\* the "async with pool.acquire()" block of import_legacy_db or of
\* check_database is left (normally or by an exception): the connection goes
\* back to the pool.  Nothing closes legacy_conn.
LeaveRun ==
    IF entry \in {"import_legacy_db", "check_database"}
    THEN conns' = [conns EXCEPT !.target = "released"]
    ELSE UNCHANGED conns

\* an importer returns: import_legacy_db goes on with the next one
Returns(next) ==
    IF entry = "import_legacy_db" /\ next # "return"
    THEN /\ pc' = next
         /\ i' = 1
         /\ UNCHANGED <<status, completed, conns, error>>
    ELSE /\ pc' = "return"
         /\ i' = 1
         /\ status' = "done"
         /\ completed' = completed + 1
         /\ LeaveRun
         /\ UNCHANGED error

\* a loop that catches the exception and goes on with the next record
RaiseCaught(exception) ==
    /\ i' = i + 1
    /\ pc' = IF pc = "killer" THEN "deaths" ELSE pc
    /\ UNCHANGED <<status, completed, conns, error>>

\* no importer and neither entry function has a try/except around a
\* statement: an exception ends the run at the record it is at and reaches
\* the caller
Raise(exception) ==
    /\ status' = "aborted"
    /\ error' = exception
    /\ LeaveRun
    /\ UNCHANGED <<pc, i, completed>>

(***************************************************************************)
(* import_characters.                                                      *)
(***************************************************************************)
\* one iteration of "for row in bar" over the legacy characters
CharacterStep ==
    /\ status = "running" /\ pc = "characters" /\ i <= Len(legacy.chars)
    /\ LET row == legacy.chars[i]
           d2 == UpsertCharacter(db, row, now)
           char_id == CharacterId(d2, row.name)
       IN /\ db' = d2
          /\ levelups' = levelups \o LegacyLevelups(legacy, char_id, row.id)
          /\ deaths' = deaths \o LegacyDeaths(legacy, char_id, row.id)
    /\ i' = i + 1
    /\ UNCHANGED <<fixed, status, pc, skipped_deaths, skipped_levelups, death_id,
                   eventLocals, completed, conns, error>>

\* the character loop ends: deaths = sorted(deaths, key=itemgetter(2))
CharactersDone ==
    /\ status = "running" /\ pc = "characters" /\ i > Len(legacy.chars)
    /\ deaths' = SortedByDate(deaths)
    /\ pc' = "deaths"
    /\ i' = 1
    /\ UNCHANGED <<fixed, db, status, levelups, skipped_deaths, skipped_levelups,
                   death_id, eventLocals, completed, conns, error>>

\* one iteration of the death loop up to the death insert
DeathStep ==
    /\ status = "running" /\ pc = "deaths" /\ i <= Len(deaths)
    /\ LET death == deaths[i]
           date == utcfromtimestamp(death.date)
       IN IF DeathExists(db, date, death.char_id)
          THEN /\ skipped_deaths' = skipped_deaths + 1
               /\ i' = i + 1
               /\ UNCHANGED <<db, pc, death_id>>
          ELSE /\ db' = InsertDeath(db, death.char_id, death.level, date)
               /\ death_id' = db.character_death_id_seq + 1
               /\ pc' = "killer"
               /\ UNCHANGED <<i, skipped_deaths>>
    /\ UNCHANGED <<fixed, status, levelups, deaths, skipped_levelups, eventLocals,
                   completed, conns, error>>

\* the killer insert that follows a death insert
KillerStep ==
    /\ status = "running" /\ pc = "killer"
    /\ LET death == deaths[i]
       IN db' = InsertKiller(db, death_id, death.killer, death.byplayer = 1)
    /\ pc' = "deaths"
    /\ i' = i + 1
    /\ UNCHANGED <<fixed, status, charLocals, eventLocals, completed, conns, error>>

\* the death loop ends: levelups = sorted(levelups, key=itemgetter(2))
DeathsDone ==
    /\ status = "running" /\ pc = "deaths" /\ i > Len(deaths)
    /\ levelups' = SortedByDate(levelups)
    /\ pc' = "levelups"
    /\ i' = 1
    /\ UNCHANGED <<fixed, db, status, deaths, skipped_deaths, skipped_levelups,
                   death_id, eventLocals, completed, conns, error>>

\* one iteration of the level-up loop
LevelupStep ==
    /\ status = "running" /\ pc = "levelups" /\ i <= Len(levelups)
    /\ LET levelup == levelups[i]
           date == utcfromtimestamp(levelup.date)
       IN IF LevelupExists(db, levelup.char_id, date)
          THEN /\ skipped_levelups' = skipped_levelups + 1
               /\ UNCHANGED db
          ELSE /\ db' = InsertLevelup(db, levelup.char_id, levelup.level, date)
               /\ UNCHANGED skipped_levelups
    /\ i' = i + 1
    /\ UNCHANGED <<fixed, status, pc, levelups, deaths, skipped_deaths, death_id,
                   eventLocals, completed, conns, error>>

\* the level-up loop ends and import_characters returns
LevelupsDone ==
    /\ status = "running" /\ pc = "levelups" /\ i > Len(levelups)
    /\ Returns("properties")
    /\ UNCHANGED <<fixed, db, charLocals, eventLocals>>

(***************************************************************************)
(* import_server_properties.                                               *)
(***************************************************************************)
\* one iteration of the loop: the body raises, or its statement runs
PropertyStep ==
    /\ status = "running" /\ pc = "properties" /\ i <= Len(legacy.server_properties)
    /\ LET row == legacy.server_properties[i]
       IN IF PropertyPlan(row).raised
          THEN /\ Raise("ValueError")
               /\ UNCHANGED db
          ELSE /\ db' = PropertyStatement(db, row)
               /\ i' = i + 1
               /\ UNCHANGED <<status, pc, completed, conns, error>>
    /\ UNCHANGED <<fixed, charLocals, eventLocals>>

PropertiesDone ==
    /\ status = "running" /\ pc = "properties" /\ i > Len(legacy.server_properties)
    /\ Returns("auto_roles")
    /\ UNCHANGED <<fixed, db, charLocals, eventLocals>>

(***************************************************************************)
(* import_roles.                                                           *)
(***************************************************************************)
AutoRoleStep ==
    /\ status = "running" /\ pc = "auto_roles" /\ i <= Len(legacy.auto_roles)
    /\ db' = InsertRoleAuto(db, legacy.auto_roles[i])
    /\ i' = i + 1
    /\ UNCHANGED <<fixed, status, pc, charLocals, eventLocals, completed, conns, error>>

AutoRolesDone ==
    /\ status = "running" /\ pc = "auto_roles" /\ i > Len(legacy.auto_roles)
    /\ pc' = "joinable_roles"
    /\ i' = 1
    /\ UNCHANGED <<fixed, db, status, charLocals, eventLocals, completed, conns, error>>

JoinableRoleStep ==
    /\ status = "running" /\ pc = "joinable_roles" /\ i <= Len(legacy.joinable_roles)
    /\ db' = InsertRoleJoinable(db, legacy.joinable_roles[i])
    /\ i' = i + 1
    /\ UNCHANGED <<fixed, status, pc, charLocals, eventLocals, completed, conns, error>>

JoinableRolesDone ==
    /\ status = "running" /\ pc = "joinable_roles" /\ i > Len(legacy.joinable_roles)
    /\ Returns("events")
    /\ UNCHANGED <<fixed, db, charLocals, eventLocals>>

(***************************************************************************)
(* import_events.                                                          *)
(***************************************************************************)
\* one iteration of the event loop
EventStep ==
    /\ status = "running" /\ pc = "events" /\ i <= Len(legacy.events)
    /\ LET row == legacy.events[i]
           event_id == db.event_id_seq + 1
       IN /\ db' = InsertEvent(db, row, now)
          /\ event_subscribers' =
                 event_subscribers \o LegacySubscribers(legacy, event_id, row.id)
          /\ event_participants' =
                 event_participants \o LegacyParticipants(legacy, event_id, row.id)
    /\ i' = i + 1
    /\ UNCHANGED <<fixed, status, pc, charLocals, completed, conns, error>>

EventsDone ==
    /\ status = "running" /\ pc = "events" /\ i > Len(legacy.events)
    /\ pc' = "subscribers"
    /\ i' = 1
    /\ UNCHANGED <<fixed, db, status, charLocals, eventLocals, completed, conns, error>>

SubscriberStep ==
    /\ status = "running" /\ pc = "subscribers" /\ i <= Len(event_subscribers)
    /\ db' = InsertSubscriber(db, event_subscribers[i])
    /\ i' = i + 1
    /\ UNCHANGED <<fixed, status, pc, charLocals, eventLocals, completed, conns, error>>

SubscribersDone ==
    /\ status = "running" /\ pc = "subscribers" /\ i > Len(event_subscribers)
    /\ pc' = "participants"
    /\ i' = 1
    /\ UNCHANGED <<fixed, db, status, charLocals, eventLocals, completed, conns, error>>

\* one iteration of the participant loop
ParticipantStep ==
    /\ status = "running" /\ pc = "participants" /\ i <= Len(event_participants)
    /\ db' = ParticipantStatement(db, event_participants[i])
    /\ i' = i + 1
    /\ UNCHANGED <<fixed, status, pc, charLocals, eventLocals, completed, conns, error>>

\* the participant loop ends and import_events returns
ParticipantsDone ==
    /\ status = "running" /\ pc = "participants" /\ i > Len(event_participants)
    /\ Returns("return")
    /\ UNCHANGED <<fixed, db, charLocals, eventLocals>>

(***************************************************************************)
(* check_database and create_database.                                     *)
(***************************************************************************)
\* version = await get_version(con); if version <= 0: ...
\* None <= 0 raises TypeError
GetVersionStep ==
    /\ status = "running" /\ pc = "get_version"
    /\ LET version == get_version(catalog, db)
       IN IF version.none
          THEN Raise("TypeError")
          ELSE IF Outdated(version.value)
               THEN /\ pc' = "tables"
                    /\ i' = 1
                    /\ UNCHANGED <<status, completed, conns, error>>
               ELSE Returns("return")
    /\ UNCHANGED <<fixed, db, charLocals, eventLocals>>

\* the CREATE statement at position i of list, or the end of the list
CreateStep(list, here, next) ==
    /\ status = "running" /\ pc = here
    /\ IF i > Len(list)
       THEN /\ pc' = next
            /\ i' = 1
            /\ UNCHANGED <<catalog, status, completed, conns, error>>
       ELSE IF CanCreate(catalog, list[i])
            THEN /\ catalog' = catalog \cup {list[i]}
                 /\ i' = i + 1
                 /\ UNCHANGED <<pc, status, completed, conns, error>>
            ELSE /\ Raise(IF list[i] \in catalog THEN "DuplicateObjectError"
                                                   ELSE "UndefinedObjectError")
                 /\ UNCHANGED catalog
    /\ UNCHANGED <<legacy, now, entry, db, charLocals, eventLocals>>

\* create_database writing the version right after the tables
CreateTableStepThenVersion == CreateStep(tables, "tables", "set_version")

\* for create_query in tables: await con.execute(create_query)
CreateTableStep == CreateStep(tables, "tables", "functions")

\* for f in functions: await con.execute(f)
CreateFunctionStep == CreateStep(functions, "functions", "triggers")

\* for trigger in triggers: await con.execute(trigger)
CreateTriggerStep == CreateStep(triggers, "triggers", "set_version")

\* create_database: await set_version(con, LATEST_VERSION)
SetVersionStep ==
    /\ status = "running" /\ pc = "set_version"
    /\ IF "global_property" \in catalog
       THEN /\ db' = set_version(db, LATEST_VERSION)
            /\ pc' = "set_version_1"
            /\ UNCHANGED <<i, status, completed, conns, error>>
       ELSE /\ Raise("UndefinedObjectError")
            /\ UNCHANGED db
    /\ UNCHANGED <<fixed, charLocals, eventLocals>>

\* check_database: await set_version(con, 1), and the function returns
SetVersionAgainStep ==
    /\ status = "running" /\ pc = "set_version_1"
    /\ db' = set_version(db, 1)
    /\ Returns("return")
    /\ UNCHANGED <<fixed, charLocals, eventLocals>>

(***************************************************************************)
(* Calls and failures.                                                     *)
(***************************************************************************)
\* import_legacy_db calling import_events first
FirstPcEventsFirst(e) ==
    CASE e = "import_legacy_db" -> "events"
      [] e = "import_characters" -> "characters"
      [] e = "import_server_properties" -> "properties"
      [] e = "import_events" -> "events"
      [] e = "check_database" -> "get_version"

FirstPc(e) ==
    CASE e = "import_legacy_db" -> "characters"
      [] e = "import_characters" -> "characters"
      [] e = "import_server_properties" -> "properties"
      [] e = "import_events" -> "events"
      [] e = "check_database" -> "get_version"

\* the caller invokes the entry function (again); import_legacy_db connects
\* to the legacy store and acquires a target connection
Call ==
    /\ status # "running"
    /\ now < MaxRuns
    /\ now' = now + 1
    /\ status' = "running"
    /\ pc' = FirstPc(entry)
    /\ i' = 1
    /\ levelups' = <<>>
    /\ deaths' = <<>>
    /\ skipped_deaths' = 0
    /\ skipped_levelups' = 0
    /\ death_id' = NoId
    /\ event_subscribers' = <<>>
    /\ event_participants' = <<>>
    /\ error' = "none"
    /\ conns' = CASE entry = "import_legacy_db" ->
                         [legacy |-> "open", target |-> "acquired"]
                  [] entry = "check_database" -> [conns EXCEPT !.target = "acquired"]
                  [] OTHER -> conns
    /\ UNCHANGED <<legacy, db, entry, completed, catalog>>

\* the run is about to send a statement to the target
AtStatement ==
    /\ status = "running"
    /\ \/ pc = "characters" /\ i <= Len(legacy.chars)
       \/ pc = "deaths" /\ i <= Len(deaths)
       \/ pc = "killer"
       \/ pc = "levelups" /\ i <= Len(levelups)
       \/ pc = "properties" /\ i <= Len(legacy.server_properties)
       \/ pc = "auto_roles" /\ i <= Len(legacy.auto_roles)
       \/ pc = "joinable_roles" /\ i <= Len(legacy.joinable_roles)
       \/ pc = "events" /\ i <= Len(legacy.events)
       \/ pc = "subscribers" /\ i <= Len(event_subscribers)
       \/ pc = "participants" /\ i <= Len(event_participants)
       \/ pc \in {"get_version", "set_version", "set_version_1"}
       \/ pc = "tables" /\ i <= Len(tables)
       \/ pc = "functions" /\ i <= Len(functions)
       \/ pc = "triggers" /\ i <= Len(triggers)

\* the statement fails with a store error (or the process dies before it):
\* nothing catches it, the run ends where it is
Fail ==
    /\ AtStatement
    /\ Raise("PostgresError")
    /\ UNCHANGED <<fixed, db, charLocals, eventLocals>>

(***************************************************************************)
(* Initial states.                                                         *)
(***************************************************************************)
EmptyDb ==
    [character |-> {}, character_death |-> {}, character_death_killer |-> <<>>,
     character_levelup |-> {}, event |-> {}, event_subscriber |-> {},
     event_participant |-> {}, server_property |-> {}, server_prefixes |-> {},
     role_auto |-> {}, role_joinable |-> {},
     global_property |-> {[key |-> "db_version", value |-> LATEST_VERSION]},
     character_id_seq |-> 0, character_death_id_seq |-> 0,
     character_levelup_id_seq |-> 0, event_id_seq |-> 0]

\* a target without a schema
FreshDb == [EmptyDb EXCEPT !.global_property = {}]

\* a target the bot has used before the migration: character "a" with one
\* death and one level-up
UsedDb ==
    [EmptyDb EXCEPT
        !.character = {[id |-> 1, user_id |-> 7, name |-> "a", level |-> 99,
                        vocation |-> "druid", world |-> "world", guild |-> NULL,
                        modified |-> 0, created |-> 0]},
        !.character_id_seq = 1,
        !.character_death = {[id |-> 1, character_id |-> 1, level |-> 98, date |-> 15]},
        !.character_death_id_seq = 1,
        !.character_death_killer = <<[death_id |-> 1, position |-> 0,
                                      name |-> "rat", player |-> FALSE]>>,
        !.character_levelup = {[id |-> 1, character_id |-> 1, level |-> 99, date |-> 16]},
        !.character_levelup_id_seq = 1]

LegacyChar(id, name) ==
    [id |-> id, user_id |-> 100 + id, name |-> name, level |-> 10 * id,
     vocation |-> "knight", world |-> "world", guild |-> NULL]

\* the names of the legacy characters, by legacy id: one character, two
\* characters, two characters sharing a name
CharNameLists == {<<"a">>, <<"a", "b">>, <<"a", "a">>}

LegacyChars(names) == [k \in 1..Len(names) |-> LegacyChar(k, names[k])]

SeqsUpTo(S, n) == UNION {[1..k -> S] : k \in 0..n}

LegacyDeathRows(n) ==
    [char_id : 1..n, level : {20}, date : DeathDates, killer : {"k"},
     byplayer : ByPlayerFlags]

LegacyLevelupRows(n) == [char_id : 1..n, level : {21}, date : Dates]

EmptyLegacy ==
    [chars |-> <<>>, char_levelups |-> <<>>, char_deaths |-> <<>>,
     server_properties |-> <<>>, events |-> <<>>, event_subscribers |-> <<>>,
     event_participants |-> <<>>, auto_roles |-> <<>>, joinable_roles |-> <<>>]

\* legacy stores that hold characters with their deaths and level-ups
CharacterLegacies ==
    {[EmptyLegacy EXCEPT !.chars = LegacyChars(names), !.char_deaths = ds,
                         !.char_levelups = ls] :
        <<names, ds, ls>> \in
            {t \in CharNameLists \X SeqsUpTo(LegacyDeathRows(2), MaxRecords)
                                 \X SeqsUpTo(LegacyLevelupRows(2), MaxRecords) :
                /\ Len(t[2]) + Len(t[3]) <= MaxRecords
                /\ \A k \in 1..Len(t[2]) : t[2][k].char_id <= Len(t[1])
                /\ \A k \in 1..Len(t[3]) : t[3][k].char_id <= Len(t[1])}}

\* JSON texts of the legacy server_properties table
PrefixesText == <<"[", Quote, "!", Quote, ",", " ", Quote, ".", Quote, "]">>
PrefixesTextSwapped == <<"[", Quote, ".", Quote, ",", Quote, "!", Quote, "]">>
TimesText == <<"[", " ", Quote, "z", Quote, "]">>
BrokenText == <<"[", Quote, "!", Quote>>

LegacyPropertyRows ==
    [server_id : {"1", "2"}, name : {"prefixes"},
     value : {PrefixesText, PrefixesTextSwapped, BrokenText}]
    \cup [server_id : {"1", "2"}, name : {"times"}, value : {TimesText, BrokenText}]
    \cup [server_id : {"1", "2"}, name : {"commandsonly"}, value : {<<"0">>, <<>>}]
    \cup [server_id : {"1", "2"}, name : {"announce"}, value : {<<"x", Quote>>}]

\* legacy stores that hold server properties
PropertyLegacies ==
    {[EmptyLegacy EXCEPT !.server_properties = ps] :
        ps \in SeqsUpTo(LegacyPropertyRows, MaxRecords)}

\* a target in which server 1 already has its prefixes and a property
ConfiguredDb ==
    [EmptyDb EXCEPT
        !.server_prefixes = {[server_id |-> 1, prefixes |-> <<<<"?">>>>]},
        !.server_property = {[server_id |-> 1, key |-> "announce",
                              value |-> <<Quote, "y", Quote>>]}]

\* legacy events: status, active and joinable as the legacy store holds them
EventFlavours ==
    {[status |-> 1, active |-> 1, joinable |-> 0],
     [status |-> 4, active |-> 0, joinable |-> 1],
     [status |-> 2, active |-> 2, joinable |-> 2]}

LegacyEvent(id, f) ==
    [id |-> id, creator |-> 5, name |-> "hunt", start |-> 31, active |-> f.active,
     status |-> f.status, description |-> NULL, server |-> 1,
     joinable |-> f.joinable, slots |-> 0]

LegacyEvents(fs) == [k \in 1..Len(fs) |-> LegacyEvent(k, fs[k])]

\* the legacy events table: one event of any flavour, or two events
EventLists ==
    {<<f>> : f \in EventFlavours}
    \cup {<<[status |-> 1, active |-> 1, joinable |-> 0],
            [status |-> 4, active |-> 0, joinable |-> 1]>>}

\* legacy char ids a participant may carry: 3 is in no modelled chars table
ParticipantCharIds == 1..3

\* legacy stores that hold characters and events with subscribers and participants
EventLegacies ==
    {[EmptyLegacy EXCEPT !.chars = LegacyChars(t[1]), !.events = LegacyEvents(t[2]),
                         !.event_subscribers = t[3], !.event_participants = t[4]] :
        t \in {u \in CharNameLists
                     \X EventLists
                     \X SeqsUpTo([event_id : 1..2, user_id : {5}], MaxRecords)
                     \X SeqsUpTo([event_id : 1..2, char_id : ParticipantCharIds],
                                 MaxRecords) :
                /\ Len(u[3]) + Len(u[4]) <= MaxRecords
                /\ \A k \in 1..Len(u[3]) : u[3][k].event_id <= Len(u[2])
                /\ \A k \in 1..Len(u[4]) : u[4][k].event_id <= Len(u[2])}}

\* the target after the characters named in S were migrated (or created by the bot)
DbWithCharacters(S) ==
    LET ids == [n \in S |-> IF n = "a" THEN 1 ELSE 2]
    IN [EmptyDb EXCEPT
           !.character = {[id |-> ids[n], user_id |-> 7, name |-> n, level |-> 99,
                           vocation |-> "druid", world |-> "world", guild |-> NULL,
                           modified |-> 0, created |-> 0] : n \in S},
           !.character_id_seq = Cardinality(S)]

\* small legacy stores with rows in every family
MixedLegacies ==
    {[chars |-> LegacyChars(names),
      char_deaths |-> ds, char_levelups |-> ls,
      server_properties |-> cfg.server_properties,
      auto_roles |-> cfg.auto_roles, joinable_roles |-> cfg.joinable_roles,
      events |-> ev.events, event_subscribers |-> ev.event_subscribers,
      event_participants |-> ev.event_participants] :
        names \in CharNameLists,
        ds \in {<<>>} \cup {<<[char_id |-> c, level |-> 20, date |-> 15,
                               killer |-> "k", byplayer |-> 1]>> : c \in 1..2},
        ls \in {<<>>} \cup {<<[char_id |-> c, level |-> 21, date |-> 16]>> : c \in 1..2},
        cfg \in {[server_properties |-> <<>>, auto_roles |-> <<>>,
                  joinable_roles |-> <<>>],
                 [server_properties |->
                      <<[server_id |-> "1", name |-> "prefixes", value |-> PrefixesText],
                        [server_id |-> "1", name |-> "announce", value |-> <<"x">>]>>,
                  auto_roles |-> <<[server_id |-> 1, role_id |-> 8, guild |-> "g"]>>,
                  joinable_roles |-> <<[server_id |-> 1, role_id |-> 9]>>],
                 [server_properties |->
                      <<[server_id |-> "1", name |-> "prefixes", value |-> BrokenText]>>,
                  auto_roles |-> <<[server_id |-> 1, role_id |-> 8, guild |-> "g"]>>,
                  joinable_roles |-> <<>>]},
        ev \in {[events |-> <<>>, event_subscribers |-> <<>>,
                 event_participants |-> <<>>]}
               \cup {[events |-> LegacyEvents(<<f>>),
                      event_subscribers |-> <<[event_id |-> 1, user_id |-> 5]>>,
                      event_participants |-> <<[event_id |-> 1, char_id |-> c]>>] :
                        f \in EventFlavours, c \in ParticipantCharIds}}

InitLocals ==
    /\ now = 0
    /\ status = "idle"
    /\ pc = "return"
    /\ i = 1
    /\ levelups = <<>>
    /\ deaths = <<>>
    /\ skipped_deaths = 0
    /\ skipped_levelups = 0
    /\ death_id = NoId
    /\ event_subscribers = <<>>
    /\ event_participants = <<>>
    /\ completed = 0
    /\ conns = [legacy |-> "none", target |-> "released"]
    /\ error = "none"

\* the importers run on a target whose schema check_database has created
InitMigrated == InitLocals /\ catalog = SchemaObjects

InitCharacters ==
    /\ entry = "import_characters"
    /\ legacy \in CharacterLegacies
    /\ db \in {EmptyDb, UsedDb}
    /\ InitMigrated

NextCharacters ==
    \/ Call
    \/ CharacterStep
    \/ CharactersDone
    \/ DeathStep
    \/ KillerStep
    \/ DeathsDone
    \/ LevelupStep
    \/ LevelupsDone
    \/ Fail

\* import_characters called on its own, again and again
SpecCharacters == InitCharacters /\ [][NextCharacters]_vars

InitProperties ==
    /\ entry = "import_server_properties"
    /\ legacy \in PropertyLegacies
    /\ db \in {EmptyDb, ConfiguredDb}
    /\ InitMigrated

NextProperties ==
    \/ Call
    \/ PropertyStep
    \/ PropertiesDone
    \/ Fail

\* import_server_properties called on its own, again and again
SpecProperties == InitProperties /\ [][NextProperties]_vars

InitEvents ==
    /\ entry = "import_events"
    /\ legacy \in EventLegacies
    /\ db \in {DbWithCharacters(S) : S \in {{}, {"a"}, {"a", "b"}}}
    /\ InitMigrated

NextEvents ==
    \/ Call
    \/ EventStep
    \/ EventsDone
    \/ SubscriberStep
    \/ SubscribersDone
    \/ ParticipantStep
    \/ ParticipantsDone
    \/ Fail

\* import_events called on its own, again and again
SpecEvents == InitEvents /\ [][NextEvents]_vars

Init ==
    /\ entry = "import_legacy_db"
    /\ legacy \in MixedLegacies
    /\ db = EmptyDb
    /\ InitMigrated

Next ==
    \/ Call
    \/ CharacterStep
    \/ CharactersDone
    \/ DeathStep
    \/ KillerStep
    \/ DeathsDone
    \/ LevelupStep
    \/ LevelupsDone
    \/ PropertyStep
    \/ PropertiesDone
    \/ AutoRoleStep
    \/ AutoRolesDone
    \/ JoinableRoleStep
    \/ JoinableRolesDone
    \/ EventStep
    \/ EventsDone
    \/ SubscriberStep
    \/ SubscribersDone
    \/ ParticipantStep
    \/ ParticipantsDone
    \/ Fail

\* import_legacy_db, again and again
Spec == Init /\ [][Next]_vars

InitSchema ==
    /\ entry = "check_database"
    /\ legacy = EmptyLegacy
    /\ \/ db = FreshDb /\ catalog = {}
       \/ db = EmptyDb /\ catalog = SchemaObjects
    /\ InitLocals

NextSchema ==
    \/ Call
    \/ GetVersionStep
    \/ CreateTableStep
    \/ CreateFunctionStep
    \/ CreateTriggerStep
    \/ SetVersionStep
    \/ SetVersionAgainStep
    \/ Fail

\* check_database, again and again
SpecSchema == InitSchema /\ [][NextSchema]_vars

(***************************************************************************)
(* The importers as functions: what a run that nothing interrupts makes of *)
(* a target d, a legacy store lg and a clock reading t.                    *)
(***************************************************************************)
RECURSIVE CharactersLoop(_, _, _, _)
CharactersLoop(acc, lg, k, t) ==
    IF k > Len(lg.chars) THEN acc
    ELSE LET row == lg.chars[k]
             d2 == UpsertCharacter(acc.db, row, t)
             char_id == CharacterId(d2, row.name)
         IN CharactersLoop(
                [db |-> d2,
                 levelups |-> acc.levelups \o LegacyLevelups(lg, char_id, row.id),
                 deaths |-> acc.deaths \o LegacyDeaths(lg, char_id, row.id)],
                lg, k + 1, t)

RECURSIVE DeathsLoop(_, _, _)
DeathsLoop(d, ds, k) ==
    IF k > Len(ds) THEN d
    ELSE LET death == ds[k]
             date == utcfromtimestamp(death.date)
         IN IF DeathExists(d, date, death.char_id)
            THEN DeathsLoop(d, ds, k + 1)
            ELSE DeathsLoop(
                     InsertKiller(InsertDeath(d, death.char_id, death.level, date),
                                  d.character_death_id_seq + 1, death.killer,
                                  death.byplayer = 1),
                     ds, k + 1)

RECURSIVE LevelupsLoop(_, _, _)
LevelupsLoop(d, ls, k) ==
    IF k > Len(ls) THEN d
    ELSE LET levelup == ls[k]
             date == utcfromtimestamp(levelup.date)
         IN IF LevelupExists(d, levelup.char_id, date)
            THEN LevelupsLoop(d, ls, k + 1)
            ELSE LevelupsLoop(InsertLevelup(d, levelup.char_id, levelup.level, date),
                              ls, k + 1)

import_characters(d, lg, t) ==
    LET c == CharactersLoop([db |-> d, levelups |-> <<>>, deaths |-> <<>>], lg, 1, t)
    IN LevelupsLoop(DeathsLoop(c.db, SortedByDate(c.deaths), 1),
                    SortedByDate(c.levelups), 1)

\* raised: the loop ended in an exception at some row
RECURSIVE PropertiesLoop(_, _, _)
PropertiesLoop(d, rows, k) ==
    IF k > Len(rows) THEN [db |-> d, raised |-> FALSE]
    ELSE IF PropertyPlan(rows[k]).raised THEN [db |-> d, raised |-> TRUE]
    ELSE PropertiesLoop(PropertyStatement(d, rows[k]), rows, k + 1)

import_server_properties(d, lg) == PropertiesLoop(d, lg.server_properties, 1)

RECURSIVE AutoRolesLoop(_, _, _)
AutoRolesLoop(d, rows, k) ==
    IF k > Len(rows) THEN d ELSE AutoRolesLoop(InsertRoleAuto(d, rows[k]), rows, k + 1)

RECURSIVE JoinableRolesLoop(_, _, _)
JoinableRolesLoop(d, rows, k) ==
    IF k > Len(rows) THEN d
    ELSE JoinableRolesLoop(InsertRoleJoinable(d, rows[k]), rows, k + 1)

import_roles(d, lg) ==
    JoinableRolesLoop(AutoRolesLoop(d, lg.auto_roles, 1), lg.joinable_roles, 1)

RECURSIVE EventsLoop(_, _, _, _)
EventsLoop(acc, lg, k, t) ==
    IF k > Len(lg.events) THEN acc
    ELSE LET row == lg.events[k]
             event_id == acc.db.event_id_seq + 1
         IN EventsLoop(
                [db |-> InsertEvent(acc.db, row, t),
                 subscribers |-> acc.subscribers
                                     \o LegacySubscribers(lg, event_id, row.id),
                 participants |-> acc.participants
                                      \o LegacyParticipants(lg, event_id, row.id)],
                lg, k + 1, t)

RECURSIVE SubscribersLoop(_, _, _)
SubscribersLoop(d, rows, k) ==
    IF k > Len(rows) THEN d
    ELSE SubscribersLoop(InsertSubscriber(d, rows[k]), rows, k + 1)

RECURSIVE ParticipantsLoop(_, _, _)
ParticipantsLoop(d, rows, k) ==
    IF k > Len(rows) THEN d
    ELSE ParticipantsLoop(ParticipantStatement(d, rows[k]), rows, k + 1)

import_events(d, lg, t) ==
    LET e == EventsLoop([db |-> d, subscribers |-> <<>>, participants |-> <<>>],
                        lg, 1, t)
    IN ParticipantsLoop(SubscribersLoop(e.db, e.subscribers, 1), e.participants, 1)

\* the four importers in the order of import_legacy_db
import_legacy_db(d, lg, t) ==
    LET p == import_server_properties(import_characters(d, lg, t), lg)
    IN IF p.raised THEN p
       ELSE [db |-> import_events(import_roles(p.db, lg), lg, t), raised |-> FALSE]

(***************************************************************************)
(* Properties.                                                             *)
(***************************************************************************)
Ids(rows) == {r.id : r \in rows}

\* the target the behaviour started from: only rows that were there before
\* the first run have created = 0
StartDb == IF \E r \in db.character : r.created = 0 THEN UsedDb ELSE EmptyDb

\* the name of the legacy character with this legacy id, NULL without one
LegacyName(old_id) == JoinedName(legacy, old_id)

\* C1: once one run of the character importer has completed, a later run
\* against the same legacy store adds no row to character, character_death
\* or character_levelup.
C1_SecondRunAddsNoRows ==
    [][completed >= 1 =>
          /\ Ids(db'.character) = Ids(db.character)
          /\ db'.character_death = db.character_death
          /\ db'.character_levelup = db.character_levelup]_vars

\* a second run has completed and every death and level-up candidate of it
\* took a skip path
C1_Witness ==
    /\ completed = 2 /\ status = "done"
    /\ Len(deaths) >= 1 /\ skipped_deaths = Len(deaths)
    /\ Len(levelups) >= 1 /\ skipped_levelups = Len(levelups)

\* the name of the character row with this id
CharacterName(d, id) == (CHOOSE r \in d.character : r.id = id).name

\* the rows of a target without what the target generates (serial ids, the
\* now() defaults): children name their parent by its content
Content(d) ==
    LET Killers(death) ==
            LET ks == {k \in 1..Len(d.character_death_killer) :
                          d.character_death_killer[k].death_id = death.id}
            IN [n |-> Cardinality(ks),
                rows |-> {[position |-> d.character_death_killer[k].position,
                           name |-> d.character_death_killer[k].name,
                           player |-> d.character_death_killer[k].player] : k \in ks}]
        Event(e) ==
            [user_id |-> e.user_id, name |-> e.name, start |-> e.start,
             active |-> e.active, description |-> e.description,
             server_id |-> e.server_id, joinable |-> e.joinable, slots |-> e.slots,
             reminder |-> e.reminder,
             subscribers |-> {r.user_id : r \in {x \in d.event_subscriber :
                                                     x.event_id = e.id}},
             participants |-> {CharacterName(d, r.character_id) :
                                   r \in {x \in d.event_participant :
                                              x.event_id = e.id}}]
    IN [character |-> {[user_id |-> r.user_id, name |-> r.name, level |-> r.level,
                        vocation |-> r.vocation, world |-> r.world,
                        guild |-> r.guild] : r \in d.character},
        character_death |-> {[character |-> CharacterName(d, r.character_id),
                              level |-> r.level, date |-> r.date,
                              killers |-> Killers(r)] : r \in d.character_death},
        character_levelup |-> {[character |-> CharacterName(d, r.character_id),
                                level |-> r.level, date |-> r.date] :
                                   r \in d.character_levelup},
        event |-> {[row |-> Event(e),
                    n |-> Cardinality({x \in d.event : Event(x) = Event(e)})] :
                       e \in d.event},
        server_property |-> d.server_property,
        server_prefixes |-> d.server_prefixes,
        role_auto |-> d.role_auto,
        role_joinable |-> d.role_joinable]

\* the actions agree with the functions: a first run of import_legacy_db
\* that nothing interrupts ends in the target import_legacy_db computes
FirstRunIsTheFunction ==
    (status = "done" /\ now = 1) => db = import_legacy_db(EmptyDb, legacy, 1).db

\* C2: a run of import_legacy_db cut short at any statement, followed by a
\* complete re-run against the same legacy store, ends in the rows (up to
\* generated ids and now() defaults) that one uninterrupted run from the
\* same start produces.
C2_RerunEqualsUninterruptedRun ==
    (status = "done" /\ now = 2 /\ completed = 1) =>
        Content(db) = Content(import_legacy_db(EmptyDb, legacy, 1).db)

\* C3: at most one character row per name at any time; every migrated
\* death, level-up and participation carries the id of the one row named
\* like its legacy character; after a complete run every legacy character
\* has exactly one row for its name and its deaths, level-ups and
\* participations are found under that row's id.
C3_NameUniqueAndAttributed ==
    /\ \A r1, r2 \in db.character : r1.name = r2.name => r1 = r2
    /\ \A r \in db.character_death :
           \E k \in 1..Len(legacy.char_deaths) :
               /\ legacy.char_deaths[k].date = r.date
               /\ LegacyName(legacy.char_deaths[k].char_id) # NULL
               /\ r.character_id =
                      CharacterId(db, LegacyName(legacy.char_deaths[k].char_id))
    /\ \A r \in db.character_levelup :
           \E k \in 1..Len(legacy.char_levelups) :
               /\ legacy.char_levelups[k].date = r.date
               /\ LegacyName(legacy.char_levelups[k].char_id) # NULL
               /\ r.character_id =
                      CharacterId(db, LegacyName(legacy.char_levelups[k].char_id))
    /\ \A r \in db.event_participant :
           \E k \in 1..Len(legacy.event_participants) :
               /\ LegacyName(legacy.event_participants[k].char_id) # NULL
               /\ r.character_id =
                      CharacterId(db, LegacyName(legacy.event_participants[k].char_id))
    /\ status = "done" =>
           /\ \A k \in 1..Len(legacy.chars) :
                  Cardinality({r \in db.character : r.name = legacy.chars[k].name}) = 1
           /\ \A k \in 1..Len(legacy.char_deaths) :
                  LegacyName(legacy.char_deaths[k].char_id) # NULL =>
                      \E r \in db.character_death :
                          /\ r.date = legacy.char_deaths[k].date
                          /\ r.character_id =
                                 CharacterId(db, LegacyName(legacy.char_deaths[k].char_id))
           /\ \A k \in 1..Len(legacy.char_levelups) :
                  LegacyName(legacy.char_levelups[k].char_id) # NULL =>
                      \E r \in db.character_levelup :
                          /\ r.date - legacy.char_levelups[k].date <= Interval15
                          /\ legacy.char_levelups[k].date - r.date <= Interval15
                          /\ r.character_id =
                                 CharacterId(db, LegacyName(legacy.char_levelups[k].char_id))
           /\ \A k \in 1..Len(legacy.event_participants) :
                  LegacyName(legacy.event_participants[k].char_id) # NULL =>
                      \E r \in db.event_participant :
                          r.character_id =
                              CharacterId(db, LegacyName(legacy.event_participants[k].char_id))

\* a complete run over two legacy characters sharing a name, the second of
\* which has a death, a level-up and a participation: one character row
C3_Witness ==
    /\ status = "done"
    /\ Len(legacy.chars) = 2 /\ legacy.chars[1].name = legacy.chars[2].name
    /\ Len(legacy.char_deaths) = 1 /\ legacy.char_deaths[1].char_id = 2
    /\ Len(legacy.char_levelups) = 1 /\ legacy.char_levelups[1].char_id = 2
    /\ Len(legacy.event_participants) = 1 /\ legacy.event_participants[1].char_id = 2
    /\ Cardinality(db.character) = 1
    /\ db.character_death # {} /\ db.character_levelup # {} /\ db.event_participant # {}

\* C4: at most one character_death row per (character_id, date) at any
\* time; in a first run every death candidate passed so far was either
\* inserted or counted in skipped_deaths.
C4_DeathDedup ==
    /\ \A r1, r2 \in db.character_death :
           (r1.character_id = r2.character_id /\ r1.date = r2.date) => r1 = r2
    /\ now = 1 =>
           LET inserted == Cardinality(db.character_death)
                               - Cardinality(StartDb.character_death)
           IN /\ pc = "deaths" => inserted + skipped_deaths = i - 1
              /\ pc = "killer" => inserted + skipped_deaths = i
              /\ pc \in {"levelups", "return"} =>
                     inserted + skipped_deaths = Len(deaths)

\* two legacy characters sharing a name each died at the same timestamp:
\* one row, one skip
C4_Witness ==
    /\ status = "done" /\ now = 1
    /\ Len(legacy.char_deaths) = 2
    /\ legacy.char_deaths[1].char_id # legacy.char_deaths[2].char_id
    /\ Len(deaths) = 2 /\ deaths[1].date = deaths[2].date
    /\ deaths[1].char_id = deaths[2].char_id
    /\ skipped_deaths = 1
    /\ Cardinality(db.character_death) = 1

\* C5: no two character_levelup rows of one character are 15 seconds or
\* less apart, whatever runs completed or were cut short.
C5_LevelupWindow ==
    \A r1, r2 \in db.character_levelup :
        (r1 # r2 /\ r1.character_id = r2.character_id) =>
            (r1.date - r2.date > Interval15 \/ r2.date - r1.date > Interval15)

\* in a second run, one character holds two level-ups 16 s apart and a
\* candidate inside the window was skipped
C5_Witness ==
    /\ now = 2 /\ skipped_levelups >= 1
    /\ \E r1, r2 \in db.character_levelup :
           r1.character_id = r2.character_id /\ r1.date - r2.date = Interval15 + 1

\* C6: no step changes any field of a character row that is already there.
C6_ExistingRowsUnmodified ==
    [][\A r \in db.character : r \in db'.character]_vars

\* the target has the whole schema and its stored version is 1
Migrated ==
    /\ catalog = SchemaObjects
    /\ get_version(catalog, db) = [none |-> FALSE, value |-> 1]

\* C7: once a call of check_database has returned the target has every
\* table, function and trigger and db_version = 1; a call on such a target
\* executes no CREATE statement and leaves the schema and the stored version
\* as they are.
C7_SecondCallIsNoOp ==
    [][/\ completed' >= 1 => Migrated'
       /\ Migrated => /\ catalog' = catalog
                      /\ db' = db
                      /\ pc' \notin {"tables", "functions", "triggers", "set_version"}]_vars

C7_Witness ==
    /\ completed = 2 /\ now = 2 /\ status = "done" /\ pc = "return"
    /\ Migrated

\* C8 as stated: a store error at a character, death or level-up insert
\* does not abort import_characters.
C8_FailedInsertDoesNotAbort == entry = "import_characters" => status # "aborted"

\* C8 amended: import_characters moves past a record only by handling it
\* (the character row is there, the death is inserted or found and counted,
\* the killer row is added, the level-up is inserted or found in its window
\* and counted); a store error ends the run at the record it is at, the rows
\* written so far stay, and nothing more is processed until the next call.
C8_StoreErrorAborts ==
    [][/\ (status = "running" /\ pc = "characters" /\ i' = i + 1) =>
              \E r \in db'.character : r.name = legacy.chars[i].name
       /\ (status = "running" /\ pc = "deaths" /\ pc' = "deaths" /\ i' = i + 1) =>
              /\ DeathExists(db, deaths[i].date, deaths[i].char_id)
              /\ skipped_deaths' = skipped_deaths + 1
              /\ db' = db
       /\ (status = "running" /\ pc = "deaths" /\ pc' = "killer") =>
              /\ ~DeathExists(db, deaths[i].date, deaths[i].char_id)
              /\ DeathExists(db', deaths[i].date, deaths[i].char_id)
       /\ (status = "running" /\ pc = "killer" /\ pc' = "deaths") =>
              Len(db'.character_death_killer) = Len(db.character_death_killer) + 1
       /\ (status = "running" /\ pc = "levelups" /\ i' = i + 1) =>
              /\ LevelupExists(db', levelups[i].char_id, levelups[i].date)
              /\ \/ db' = db /\ skipped_levelups' = skipped_levelups + 1
                 \/ db' # db /\ skipped_levelups' = skipped_levelups
       /\ (status = "running" /\ status' = "aborted") =>
              db' = db /\ pc' = pc /\ i' = i /\ error' # "none"
       /\ status = "aborted" =>
              db' = db /\ status' = "running" /\ now' = now + 1]_vars

\* the first of two deaths failed in a first run on an empty target: the
\* second death was not inserted
C8_Witness ==
    /\ status = "aborted" /\ error = "PostgresError" /\ now = 1
    /\ pc = "deaths" /\ i = 1 /\ Len(deaths) = 2
    /\ deaths[1].date # deaths[2].date
    /\ db.character # {}
    /\ db.character_death = {}

\* C9: a participant whose name resolves to no character row at lookup time
\* (a NULL joined name included) gets no event_participant row and raises
\* nothing; the loop goes on, and when import_events returns every
\* participant whose name does resolve has its row.
C9_OrphanParticipantDropped ==
    [][/\ (/\ status = "running" /\ pc = "participants"
           /\ i <= Len(event_participants)
           /\ SelectCharacterId(db, event_participants[i].name) = NoId) =>
              /\ db' = db
              /\ error' \in {"none", "PostgresError"}
              /\ error' = "none" =>
                     status' = "running" /\ pc' = "participants" /\ i' = i + 1
       /\ (status = "running" /\ pc = "participants" /\ status' = "done") =>
              \A k \in 1..Len(event_participants) :
                  LET row == event_participants[k]
                      char_id == SelectCharacterId(db', row.name)
                  IN char_id # NoId =>
                         [event_id |-> row.event_id, character_id |-> char_id]
                             \in db'.event_participant
       /\ \A r \in db'.event_participant : r.character_id \in Ids(db'.character)]_vars

\* an orphan came first, a participant with a character after it
C9_Witness ==
    /\ status = "done" /\ now = 1
    /\ Len(event_participants) = 2
    /\ SelectCharacterId(db, event_participants[1].name) = NoId
    /\ SelectCharacterId(db, event_participants[2].name) # NoId
    /\ Cardinality(db.event_participant) = 1

\* the list a legacy prefixes text stands for
PrefixesOf(text) ==
    CASE text = PrefixesText -> <<<<"!">>, <<".">>>>
      [] text = PrefixesTextSwapped -> <<<<".">>, <<"!">>>>

ServerOf(text) == IF text = "1" THEN 1 ELSE 2

\* C10: a legacy row with key 'prefixes' leaves server_property alone and,
\* once handled, the server has a server_prefixes row, which holds the
\* parsed list in its order when the server had none before; a row with any
\* other key leaves server_prefixes alone; no server_property row ever has
\* the key 'prefixes'.
C10_PrefixIsolation ==
    [][/\ (/\ status = "running" /\ pc = "properties"
           /\ i <= Len(legacy.server_properties)) =>
              LET row == legacy.server_properties[i]
                  server == ServerOf(row.server_id)
              IN IF row.name = "prefixes"
                 THEN /\ db'.server_property = db.server_property
                      /\ i' = i + 1 =>
                             IF \E r \in db.server_prefixes : r.server_id = server
                             THEN db' = db
                             ELSE db'.server_prefixes = db.server_prefixes \cup
                                      {[server_id |-> server,
                                        prefixes |-> PrefixesOf(row.value)]}
                 ELSE db'.server_prefixes = db.server_prefixes
       /\ \A r \in db.server_property \cup db'.server_property :
              r.key # "prefixes"]_vars

C10_Witness ==
    /\ status = "done"
    /\ \E r \in db.server_prefixes : r.prefixes = <<<<"!">>, <<".">>>>
    /\ \E r \in db.server_prefixes : r.prefixes = <<<<".">>, <<"!">>>>

\* C11: the event row that import_events inserts for a legacy event with
\* status s has reminder = 4 - s (3 for status 1, 0 for status 4), and its
\* active and joinable are true exactly when the legacy flags are not 0.
C11_StatusReencoded ==
    [][(/\ status = "running" /\ pc = "events" /\ i <= Len(legacy.events)
        /\ i' = i + 1) =>
           LET row == legacy.events[i]
           IN /\ Cardinality(db'.event) = Cardinality(db.event) + 1
              /\ \A e \in db'.event \ db.event :
                     /\ e.reminder + row.status = 4
                     /\ row.status = 1 => e.reminder = 3
                     /\ row.status = 4 => e.reminder = 0
                     /\ e.active = (row.active # 0)
                     /\ e.joinable = (row.joinable # 0)]_vars

\* a legacy event of status 1 and one of status 4 were migrated
C11_Witness ==
    /\ status = "done" /\ now = 1
    /\ \E k \in 1..Len(legacy.events) : legacy.events[k].status = 1
    /\ \E k \in 1..Len(legacy.events) : legacy.events[k].status = 4
    /\ \E e \in db.event : e.reminder = 3 /\ e.active /\ ~e.joinable
    /\ \E e \in db.event : e.reminder = 0 /\ ~e.active /\ e.joinable

\* C12: the level-up candidates are processed in one ascending order of
\* their timestamps; a candidate is skipped (and counted) exactly when the
\* target holds a level-up of its character at most 15 s away on either
\* side, and is inserted otherwise; so on an empty target a candidate is
\* retained exactly when no retained level-up of its character lies up to
\* 15 s before it.
C12_LevelupDecisionRule ==
    [][/\ (status' = "running" /\ pc' = "levelups") =>
              \A k \in 1..(Len(levelups') - 1) :
                  levelups'[k].date <= levelups'[k + 1].date
       /\ (/\ status = "running" /\ pc = "levelups" /\ i <= Len(levelups)
           /\ i' = i + 1) =>
              LET l == levelups[i]
                  near == \E r \in db.character_levelup :
                              /\ r.character_id = l.char_id
                              /\ r.date - l.date <= 15
                              /\ l.date - r.date <= 15
              IN IF near
                 THEN db' = db /\ skipped_levelups' = skipped_levelups + 1
                 ELSE /\ skipped_levelups' = skipped_levelups
                      /\ db'.character_levelup =
                             db.character_levelup \cup
                                 {[id |-> db.character_levelup_id_seq + 1,
                                   character_id |-> l.char_id, level |-> l.level,
                                   date |-> l.date]}
       /\ (status' = "done" /\ now = 1 /\ StartDb = EmptyDb) =>
              \A k \in 1..Len(levelups') :
                  LET l == levelups'[k]
                  IN (\E r \in db'.character_levelup :
                          r.character_id = l.char_id /\ r.date = l.date)
                     <=> ~(\E r \in db'.character_levelup :
                               /\ r.character_id = l.char_id
                               /\ r.date < l.date
                               /\ l.date - r.date <= 15)]_vars

\* on an empty target, of two level-ups of one character exactly 15 s apart
\* only the earlier one is there
C12_Witness ==
    /\ status = "done" /\ now = 1 /\ StartDb = EmptyDb
    /\ Len(levelups) = 2 /\ skipped_levelups = 1
    /\ levelups[1].char_id = levelups[2].char_id
    /\ levelups[1].date = 0 /\ levelups[2].date = 15
    /\ {r.date : r \in db.character_levelup} = {0}

\* C13: when a run of import_characters has completed, also one started on
\* what an interrupted run left behind, every character_death row has
\* exactly one character_death_killer row, at position 0.
C13_OneKillerPerDeath ==
    status = "done" =>
        \A d \in db.character_death :
            /\ Cardinality({k \in 1..Len(db.character_death_killer) :
                               db.character_death_killer[k].death_id = d.id}) = 1
            /\ \A k \in 1..Len(db.character_death_killer) :
                   db.character_death_killer[k].death_id = d.id =>
                       db.character_death_killer[k].position = 0

\* C14: a store error at any target statement, and an unparsable legacy
\* 'prefixes' value, end the run of import_legacy_db at that record: the
\* error reaches the caller, no later importer runs (the next step is a new
\* call), and no row written before is lost, by the failure or by any step.
C14_FailurePropagatesWithoutRollback ==
    [][/\ (status = "running" /\ status' = "aborted") =>
              /\ db' = db /\ pc' = pc /\ i' = i
              /\ error' # "none"
              /\ conns'.target = "released"
       /\ status = "aborted" =>
              /\ db' = db
              /\ status' = "running" /\ pc' = "characters" /\ now' = now + 1
       /\ (/\ status = "running" /\ pc = "properties"
           /\ i <= Len(legacy.server_properties)
           /\ legacy.server_properties[i].name = "prefixes"
           /\ legacy.server_properties[i].value = BrokenText) =>
              /\ status' = "aborted" /\ error' \in {"ValueError", "PostgresError"}
              /\ pc' = "properties" /\ i' = i
              /\ db' = db
       /\ Ids(db.character) \subseteq Ids(db'.character)
       /\ db.character_death \subseteq db'.character_death
       /\ Len(db.character_death_killer) <= Len(db'.character_death_killer)
       /\ \A k \in 1..Len(db.character_death_killer) :
              db'.character_death_killer[k] = db.character_death_killer[k]
       /\ db.character_levelup \subseteq db'.character_levelup
       /\ db.server_property \subseteq db'.server_property
       /\ db.server_prefixes \subseteq db'.server_prefixes
       /\ db.role_auto \subseteq db'.role_auto
       /\ db.role_joinable \subseteq db'.role_joinable
       /\ db.event \subseteq db'.event
       /\ db.event_subscriber \subseteq db'.event_subscriber
       /\ db.event_participant \subseteq db'.event_participant]_vars

\* an unparsable prefixes value stopped the run in import_server_properties:
\* the characters are there, the roles were never imported
C14_Witness ==
    /\ status = "aborted" /\ error = "ValueError" /\ now = 1
    /\ pc = "properties"
    /\ db.character # {}
    /\ legacy.auto_roles # <<>> /\ db.role_auto = {}

\* C15: in a run of import_legacy_db every legacy character has its target
\* row before import_events begins, and when a run has completed every
\* legacy participant whose character is in the legacy chars table has an
\* event_participant row that links the event id created in this run for
\* its event to the target id of the character of that name.
C15_CharactersBeforeParticipants ==
    /\ (status = "running" /\ pc \in {"events", "subscribers", "participants"}) =>
           \A k \in 1..Len(legacy.chars) :
               \E c \in db.character : c.name = legacy.chars[k].name
    /\ status = "done" =>
           \A k \in 1..Len(legacy.event_participants) :
               LET p == legacy.event_participants[k]
                   event_id == db.event_id_seq - Len(legacy.events) + p.event_id
               IN \A j \in 1..Len(legacy.chars) :
                      legacy.chars[j].id = p.char_id =>
                          \E c \in db.character :
                              /\ c.name = legacy.chars[j].name
                              /\ [event_id |-> event_id, character_id |-> c.id]
                                     \in db.event_participant
                              /\ \E e \in db.event : e.id = event_id

\* a complete run linked a participant to the character migrated before it
C15_Witness ==
    /\ status = "done" /\ now = 1
    /\ \E k \in 1..Len(legacy.event_participants) :
           \E j \in 1..Len(legacy.chars) :
               legacy.chars[j].id = legacy.event_participants[k].char_id
    /\ db.event_participant # {}

\* C16: db_version is stored, as 1, only when every table, function and
\* trigger has been created; a call of check_database that failed before
\* the schema was complete leaves no db_version.
C16_NoVersionOnPartialSchema ==
    /\ \A r \in db.global_property :
           r.key = "db_version" => (r.value = 1 /\ catalog = SchemaObjects)
    /\ (status = "aborted" /\ catalog # SchemaObjects) =>
           ~(\E r \in db.global_property : r.key = "db_version")

\* a call failed after global_property was created: no version is stored
C16_Witness ==
    /\ status = "aborted"
    /\ "global_property" \in catalog /\ "command" \notin catalog
    /\ db.global_property = {}

\* C17: a call of check_database fails only when the store fails: what an
\* aborted call left behind (a partial schema without db_version) never
\* makes a later call fail.
C17_RetryDoesNotFailOnPartialSchema ==
    status = "aborted" => error = "PostgresError"

\* the statements of create_database in the order they are executed
CreationOrder == tables \o functions \o triggers

Position(obj) == CHOOSE k \in 1..Len(CreationOrder) : CreationOrder[k] = obj

\* C18: create_database creates the objects in one fixed order, in which
\* every referenced table precedes the table that references it, the
\* function precedes the triggers that call it and every trigger follows
\* its table; no creation statement ever finds an object it names missing,
\* and the version is written only after the last statement.
C18_CreationOrder ==
    /\ Position("character") < Position("character_death")
    /\ Position("character") < Position("character_levelup")
    /\ Position("character") < Position("event_participant")
    /\ Position("character_death") < Position("character_death_killer")
    /\ Position("event") < Position("event_participant")
    /\ Position("event") < Position("event_subscriber")
    /\ Position("update_modified_column") < Position("update_character_modified")
    /\ Position("update_modified_column") < Position("update_event_modified")
    /\ Position("character") < Position("update_character_modified")
    /\ Position("event") < Position("update_event_modified")
    /\ \E n \in 0..Len(CreationOrder) : catalog = {CreationOrder[k] : k \in 1..n}
    /\ error # "UndefinedObjectError"
    /\ (\E r \in db.global_property : r.key = "db_version") =>
           catalog = {CreationOrder[k] : k \in 1..Len(CreationOrder)}

\* the first trigger is created, the second is next
C18_Witness ==
    /\ status = "running" /\ pc = "triggers" /\ i = 2
    /\ "update_character_modified" \in catalog
    /\ "update_event_modified" \notin catalog

\* C19: no step of import_server_properties removes or changes a
\* server_property or server_prefixes row that is already there, whether it
\* was there before the run or written earlier in it, and there is never
\* more than one row per (server_id, key) or per server_id: the first value
\* written stays.
C19_FirstWriteWins ==
    [][/\ \A r \in db.server_property : r \in db'.server_property
       /\ \A r \in db.server_prefixes : r \in db'.server_prefixes
       /\ \A r1, r2 \in db'.server_property :
              (r1.server_id = r2.server_id /\ r1.key = r2.key) => r1 = r2
       /\ \A r1, r2 \in db'.server_prefixes :
              r1.server_id = r2.server_id => r1 = r2]_vars

\* two legacy prefixes rows of one server with different lists were
\* handled: the list of the first is the one stored
C19_Witness ==
    /\ status = "done" /\ now = 1
    /\ Len(legacy.server_properties) = 2
    /\ legacy.server_properties[1].name = "prefixes"
    /\ legacy.server_properties[2].name = "prefixes"
    /\ legacy.server_properties[1].server_id = "2"
    /\ legacy.server_properties[2].server_id = "2"
    /\ legacy.server_properties[1].value = PrefixesText
    /\ legacy.server_properties[2].value = PrefixesTextSwapped
    /\ [server_id |-> 2, prefixes |-> <<<<"!">>, <<".">>>>] \in db.server_prefixes

\* C20: whenever a run of import_legacy_db has ended, by returning or by an
\* exception, the legacy store connection is closed and the target
\* connection of the run is back in the pool.
C20_ConnectionsClosedAtTermination ==
    (entry = "import_legacy_db" /\ status \in {"done", "aborted"}) =>
        (conns.legacy = "closed" /\ conns.target = "released")

====
